---- MODULE Spec2Model ----
(***************************************************************************)
(* Model of the rowing workout generator (src/app/generator.py).           *)
(*                                                                         *)
(* Times in the generator are Python floats (IEEE-754 binary64).  The      *)
(* model keeps them as binary64 values: a value is a sign and a magnitude, *)
(* the magnitude being an unbounded natural number (little-endian limbs of *)
(* LimbBits bits) counting units of 2^-FracBits.  Every float operation    *)
(* computes the exact result on the naturals and rounds it to Precision    *)
(* significant bits, ties to even, as the hardware does.  All the values   *)
(* the generator computes are either 0 or of magnitude >= 2^-7, so their   *)
(* last significant bit is never below 2^-FracBits.                        *)
(***************************************************************************)
EXTENDS Integers, Sequences, FiniteSets

\* ------------------------------------------------------------------------
\* Bounds of the model
\* ------------------------------------------------------------------------
MinTotal == 13
MaxTotal == 20
LongTotal == 35

\* The total_time_minutes the model passes in: the short workouts around the
\* 15 minute floor, and one long workout (long enough for the seven step
\* pyramids).
Totals == (MinTotal..MaxTotal) \cup {LongTotal}

\* ------------------------------------------------------------------------
\* binary64 arithmetic
\* ------------------------------------------------------------------------
Precision == 53
LimbBits == 15
Base == 2 ^ LimbBits
FracLimbs == 4
FracBits == FracLimbs * LimbBits

Pow2(n) == 2 ^ n

\* e, with v evaluated first (TLC evaluates operator arguments on first use)
Now(v, e) == IF v = v THEN e ELSE e

RECURSIVE BNNorm(_)
BNNorm(a) ==
    IF a = <<>> THEN <<>>
    ELSE IF a[Len(a)] = 0 THEN BNNorm(SubSeq(a, 1, Len(a) - 1))
    ELSE a

RECURSIVE BNFromInt(_)
BNFromInt(n) == IF n = 0 THEN <<>> ELSE <<n % Base>> \o BNFromInt(n \div Base)

RECURSIVE BNToInt(_)
BNToInt(a) == IF a = <<>> THEN 0 ELSE a[1] + Base * BNToInt(Tail(a))

RECURSIVE BNAddC(_, _, _)
BNAddC(a, b, c) ==
    IF a = <<>> /\ b = <<>> THEN (IF c = 0 THEN <<>> ELSE <<c>>)
    ELSE LET x == IF a = <<>> THEN 0 ELSE a[1]
             y == IF b = <<>> THEN 0 ELSE b[1]
             s == x + y + c
         IN  <<s % Base>> \o BNAddC(IF a = <<>> THEN <<>> ELSE Tail(a),
                                    IF b = <<>> THEN <<>> ELSE Tail(b),
                                    s \div Base)

BNAdd(a, b) == BNAddC(a, b, 0)

\* a - b for a >= b
RECURSIVE BNSubC(_, _, _)
BNSubC(a, b, c) ==
    IF a = <<>> THEN <<>>
    ELSE LET y == IF b = <<>> THEN 0 ELSE b[1]
             d == a[1] - y - c
         IN  <<IF d < 0 THEN d + Base ELSE d>>
             \o BNSubC(Tail(a), IF b = <<>> THEN <<>> ELSE Tail(b),
                       IF d < 0 THEN 1 ELSE 0)

BNSub(a, b) == BNNorm(BNSubC(a, b, 0))

\* -1, 0, 1 for a < b, a = b, a > b (both normalised)
RECURSIVE BNCmpAt(_, _, _)
BNCmpAt(a, b, i) ==
    IF i = 0 THEN 0
    ELSE IF a[i] < b[i] THEN -1
    ELSE IF a[i] > b[i] THEN 1
    ELSE BNCmpAt(a, b, i - 1)

BNCmp(a, b) ==
    IF Len(a) < Len(b) THEN -1
    ELSE IF Len(a) > Len(b) THEN 1
    ELSE BNCmpAt(a, b, Len(a))

\* a * k for 0 <= k < 2 * Base
RECURSIVE BNMulSmallC(_, _, _)
BNMulSmallC(a, k, c) ==
    IF a = <<>> THEN BNFromInt(c)
    ELSE LET p == a[1] * k + c
         IN  <<p % Base>> \o BNMulSmallC(Tail(a), k, p \div Base)

BNMulSmall(a, k) == BNNorm(BNMulSmallC(a, k, 0))

BNShiftLimbs(a, n) == IF a = <<>> THEN <<>> ELSE [i \in 1..n |-> 0] \o a

RECURSIVE BNMulAt(_, _, _)
BNMulAt(a, b, i) ==
    IF i > Len(b) THEN <<>>
    ELSE IF b[i] = 0 THEN BNMulAt(a, b, i + 1)
    ELSE BNAdd(BNShiftLimbs(BNMulSmall(a, b[i]), i - 1), BNMulAt(a, b, i + 1))

BNMul(a, b) == BNNorm(BNMulAt(a, b, 1))

\* quotient and remainder of a by d, 0 < d < 2 * Base
RECURSIVE BNDivSmallAt(_, _, _, _)
BNDivSmallAt(a, d, i, r) ==
    IF i = 0 THEN [q |-> <<>>, r |-> r]
    ELSE LET cur  == r * Base + a[i]
             rest == BNDivSmallAt(a, d, i - 1, cur % d)
         IN  [q |-> rest.q \o <<cur \div d>>, r |-> rest.r]

BNDivSmall(a, d) ==
    LET Normalised(res) == [q |-> BNNorm(res.q), r |-> res.r]
    IN  Normalised(BNDivSmallAt(a, d, Len(a), 0))

BNBitLenLimb(x) == Cardinality({k \in 0..(LimbBits - 1) : Pow2(k) <= x})

BNBitLen(a) ==
    IF a = <<>> THEN 0 ELSE (Len(a) - 1) * LimbBits + BNBitLenLimb(a[Len(a)])

\* a shifted right by s bits, and whether a nonzero bit was shifted out
BNShr(a, s) ==
    LET Parts(low, dv) ==
            [q |-> dv.q, sticky |-> (dv.r # 0) \/ (\E i \in 1..Len(low) : low[i] # 0)]
        Split(nl, nb) ==
            Parts(IF nl < Len(a) THEN SubSeq(a, 1, nl) ELSE a,
                  BNDivSmall(IF nl < Len(a) THEN SubSeq(a, nl + 1, Len(a)) ELSE <<>>,
                             Pow2(nb)))
    IN  Split(s \div LimbBits, s % LimbBits)

BNShl(a, s) == BNShiftLimbs(BNMulSmall(a, Pow2(s % LimbBits)), s \div LimbBits)

BNIsOdd(a) == a # <<>> /\ a[1] % 2 = 1

\* Round the natural n, in units of 2^-(FracBits + extra) and followed by a
\* nonzero tail iff sticky, to Precision significant bits (nearest, ties to
\* even); the result is in units of 2^-FracBits.
BNRound(n, extra, sticky) ==
    LET Up(q, rbit, tail) ==
            IF rbit /\ (tail \/ BNIsOdd(q)) THEN BNAdd(q, <<1>>) ELSE q
        Nearest(s1) == Up(BNDivSmall(s1.q, 2).q, BNIsOdd(s1.q), s1.sticky \/ sticky)
        Dropping(drop) ==
            IF drop = 0 THEN n
            ELSE BNShl(Nearest(BNShr(n, drop - 1)), drop - extra)
        Over(over) == Dropping(IF over > extra THEN over ELSE extra)
    IN  Now(n, Over(BNBitLen(n) - Precision))

FZero == [neg |-> FALSE, mag |-> <<>>]

FMake(neg, mag) == IF mag = <<>> THEN FZero ELSE [neg |-> neg, mag |-> mag]

\* float(k)
FInt(k) == FMake(k < 0, BNShiftLimbs(BNFromInt(IF k < 0 THEN -k ELSE k), FracLimbs))

\* the float k / 2  (0.5, 1.5, 2.5, ... are exact in binary64)
FHalves(k) == FMake(k < 0, BNDivSmall(FInt(k).mag, 2).q)

\* the float k / 4
FQuarters(k) == FMake(k < 0, BNDivSmall(FInt(k).mag, 4).q)

FNeg(x) == FMake(~x.neg, x.mag)

\* exact real sum of two values, not rounded
FAddExact(x, y) ==
    IF x.neg = y.neg THEN FMake(x.neg, BNAdd(x.mag, y.mag))
    ELSE IF BNCmp(x.mag, y.mag) >= 0 THEN FMake(x.neg, BNSub(x.mag, y.mag))
    ELSE FMake(y.neg, BNSub(y.mag, x.mag))

FRound(x) == Now(x, FMake(x.neg, BNRound(x.mag, 0, FALSE)))

\* x + y, x - y, x * y
FAdd(x, y) == Now(x, Now(y, FRound(FAddExact(x, y))))
FSub(x, y) == FAdd(x, FNeg(y))
FMul(x, y) ==
    Now(x, Now(y, FMake(x.neg # y.neg, BNRound(BNMul(x.mag, y.mag), FracBits, FALSE))))

\* x / n for an integer n > 0
FDivInt(x, n) ==
    LET Rounded(dv) == FMake(x.neg, BNRound(dv.q, LimbBits, dv.r # 0))
    IN  Now(x, Rounded(BNDivSmall(BNShiftLimbs(x.mag, 1), n)))

FLess(x, y) ==
    IF x.neg /\ ~y.neg THEN TRUE
    ELSE IF ~x.neg /\ y.neg THEN FALSE
    ELSE IF x.neg THEN BNCmp(x.mag, y.mag) > 0
    ELSE BNCmp(x.mag, y.mag) < 0

FLeq(x, y) == ~FLess(y, x)

\* int(x): truncation toward zero
FTrunc(x) ==
    LET Signed(ip) == IF x.neg THEN -ip ELSE ip
    IN  Now(x, Signed(BNToInt(BNShr(x.mag, FracBits).q)))

FIsInt(x) == ~BNShr(x.mag, FracBits).sticky

\* int(x // y) for x >= 0 and y > 0 a multiple of 0.5: Python's float floor
\* division returns the exact floor of the quotient of the two floats.
FFloorDiv(x, y) ==
    LET twoY == FTrunc(FAddExact(y, y))
        twoX == BNMulSmall(x.mag, 2)
    IN  BNToInt(BNShr(BNDivSmall(twoX, twoY).q, FracBits).q)

\* ------------------------------------------------------------------------
\* Labels and segments
\* ------------------------------------------------------------------------
\* The labels of generator.py without their trailing emoji.
WORKOUT_TYPES == {"Cardio", "Interval", "Pyramid-SPM", "Pyramid-Time", "Strength", "Surprise"}
DIFFICULTIES == {"Easy", "Medium", "Hard"}

\* Inputs outside the enumerated labels.
OtherWorkoutTypes == {"Yoga"}
OtherDifficulties == {"Extreme"}

\* The two float summation algorithms of the builtin sum(): plain left to
\* right addition (CPython up to 3.11) and Neumaier compensated summation
\* (CPython 3.12 and later).  The interpreter fixes one for the whole run.
SumImpls == {"plain", "compensated"}

\* A WorkoutSet (set_name, time, stroke_rate, resistance_level).  The name
\* f"Surprise Segment {seg}: {name} {num}: {section}" is kept in its parts;
\* seg = 0 when there is no prefix, num = 0 when the name has no number.
Set(name, num, section, time, spm, res) ==
    [seg |-> 0, name |-> name, num |-> num, section |-> section,
     time |-> time, spm |-> spm, res |-> res]

\* The list built by a loop that appends firsts[i] and then seconds[i] in
\* iteration i.
Interleave(firsts, seconds) ==
    [k \in 1..(2 * Len(firsts)) |->
        IF k % 2 = 1 THEN firsts[(k + 1) \div 2] ELSE seconds[k \div 2]]

Returned(sets) == [err |-> "none", sets |-> sets]
Raised(err) == [err |-> err, sets |-> <<>>]

\* ------------------------------------------------------------------------
\* sum()
\* ------------------------------------------------------------------------
\* Both sums are left folds over the list.  The folds split the index range
\* in halves, which visits the items in the same left to right order as a
\* loop and keeps the evaluation shallow.

\* acc + xs[lo] + ... + xs[hi], each addition rounded
RECURSIVE PlainSum(_, _, _, _)
PlainSum(xs, lo, hi, acc) ==
    IF lo > hi THEN acc
    ELSE IF lo = hi THEN FAdd(acc, xs[lo])
    ELSE LET mid == (lo + hi) \div 2
         IN  Now(acc, PlainSum(xs, mid + 1, hi, PlainSum(xs, lo, mid, acc)))

\* One step of the compensated loop: st.s is the running sum and st.c the
\* running compensation.
CompensatedStep(st, x) ==
    LET Lost(t, big, small) == FAdd(FSub(big, t), small)
        Step(t, kept) ==
            [s |-> t,
             c |-> FAdd(st.c, Lost(t, IF kept THEN st.s ELSE x, IF kept THEN x ELSE st.s))]
    IN  Step(FAdd(st.s, x), BNCmp(st.s.mag, x.mag) >= 0)

RECURSIVE CompensatedLoop(_, _, _, _)
CompensatedLoop(xs, lo, hi, st) ==
    IF lo > hi THEN st
    ELSE IF lo = hi THEN CompensatedStep(st, xs[lo])
    ELSE LET mid == (lo + hi) \div 2
         IN  Now(st, CompensatedLoop(xs, mid + 1, hi, CompensatedLoop(xs, lo, mid, st)))

CompensatedSum(xs) ==
    LET Total(st) == IF st.c = FZero THEN st.s ELSE FAdd(st.s, st.c)
    IN  Total(CompensatedLoop(xs, 1, Len(xs), [s |-> FZero, c |-> FZero]))

PySum(xs, impl) ==
    IF impl = "plain" THEN PlainSum(xs, 1, Len(xs), FZero) ELSE CompensatedSum(xs)

Times(sets) == [i \in 1..Len(sets) |-> sets[i].time]

\* ------------------------------------------------------------------------
\* Builders
\* ------------------------------------------------------------------------
get_intensity_params(difficulty) ==
    CASE difficulty = "Easy"   -> [spm |-> 22, resistance |-> 4]
      [] difficulty = "Medium" -> [spm |-> 24, resistance |-> 5]
      [] difficulty = "Hard"   -> [spm |-> 26, resistance |-> 6]
      [] OTHER                 -> [spm |-> 24, resistance |-> 5]

generate_endurance_workout(m_time, difficulty) ==
    LET params == get_intensity_params(difficulty)
    IN  Returned(<<Set("Steady State Row", 0, "", FMul(m_time, FInt(60)),
                       params.spm, params.resistance)>>)

generate_interval_workout(m_time, difficulty, impl) ==
    LET params          == get_intensity_params(difficulty)
        work_spm        == params.spm + 4
        rest_spm        == 20
        base_resistance == params.resistance
        work_duration   == IF difficulty = "Medium" THEN FHalves(3) ELSE FInt(1)
        rest_bound      == difficulty \in {"Easy", "Hard"}
        rest_duration   == IF difficulty = "Easy" THEN FHalves(3) ELSE FHalves(1)
        work(i) == Set("Work Interval", i, "", FMul(work_duration, FInt(60)),
                       work_spm, base_resistance)
        rest(i) == Set("Rest Interval", i, "", FMul(rest_duration, FInt(60)),
                       rest_spm, base_resistance)
        Cycles(num_cycles) == Interleave([i \in 1..num_cycles |-> work(i)],
                                         [i \in 1..num_cycles |-> rest(i)])
        Final(remaining_time) ==
            IF FLess(remaining_time, FAdd(rest_duration, work_duration))
            THEN <<Set("Final Easy Row", 0, "", FMul(remaining_time, FInt(60)),
                       rest_spm, 5)>>
            ELSE <<>>
        Finished(workout) ==
            Returned(workout \o Final(FSub(m_time, PySum(Times(workout), impl))))
    IN  IF ~rest_bound THEN Raised("UnboundLocalError")
        ELSE Finished(Cycles(FFloorDiv(m_time, FAdd(work_duration, rest_duration))))

Section(i, n) ==
    IF i - 1 < n \div 2 THEN "Climbing"
    ELSE IF i - 1 > n \div 2 THEN "Descending"
    ELSE "Peak"

generate_rate_pyramid_workout(m_time, difficulty) ==
    LET pattern == IF FLess(m_time, FInt(20)) THEN <<1, 2, 3, 2, 1>>
                   ELSE <<1, 2, 3, 4, 3, 2, 1>>
        mult_bound == difficulty \in DIFFICULTIES
        multiplier == CASE difficulty = "Easy"   -> FHalves(3)
                        [] difficulty = "Medium" -> FDivInt(FInt(17), 10)
                        [] OTHER                 -> FDivInt(FInt(19), 10)
        n_segments   == Len(pattern) * 2
        segment_time == FDivInt(m_time, n_segments)
        base         == get_intensity_params(difficulty)
        rest_period(seconds) == Set("Rest", 0, "", seconds, base.spm, base.resistance)
        work_period(i, seconds) ==
            Set("Work Period", i, Section(i, Len(pattern)), seconds,
                FTrunc(FAdd(FInt(base.spm), FMul(FInt(pattern[i]), multiplier))),
                base.resistance)
        Periods(seconds) ==
            Returned(Interleave([i \in 1..Len(pattern) |-> work_period(i, seconds)],
                                [i \in 1..Len(pattern) |-> rest_period(seconds)]))
    IN  IF ~mult_bound THEN Raised("UnboundLocalError")
        ELSE Periods(FInt(FTrunc(FMul(segment_time, FInt(60)))))

RECURSIVE SeqSum(_)
SeqSum(s) == IF s = <<>> THEN 0 ELSE Head(s) + SeqSum(Tail(s))

TimePattern(m_time) ==
    IF FLess(m_time, FInt(24)) THEN <<1, 2, 3, 2, 1>> ELSE <<1, 2, 3, 4, 3, 2, 1>>

TimeRest(difficulty) == IF difficulty = "Easy" THEN FQuarters(3) ELSE FHalves(1)

\* Line 153: nonrest_time.
NonrestTimeWithRests(m_time, rest_duration, n) == m_time

NonrestTime(m_time, rest_duration, n) == FSub(m_time, FMul(rest_duration, FInt(n)))

generate_time_pyramid_workout(m_time, difficulty) ==
    LET pattern       == TimePattern(m_time)
        rest_bound    == difficulty \in DIFFICULTIES
        rest_duration == TimeRest(difficulty)
        base          == get_intensity_params(difficulty)
        rest_period   == Set("Rest", 0, "", FMul(rest_duration, FInt(60)),
                             base.spm - 2, base.resistance)
        nonrest_time  == NonrestTime(m_time, rest_duration, Len(pattern))
        interval_time(i) ==
            FMul(FDivInt(FInt(pattern[i]), SeqSum(pattern)), nonrest_time)
        work_period(i) ==
            Set("Work Period", i, Section(i, Len(pattern)),
                FInt(FTrunc(FMul(interval_time(i), FInt(60)))),
                base.spm + 3, base.resistance)
    IN  IF ~rest_bound THEN Raised("UnboundLocalError")
        ELSE Returned(Interleave([i \in 1..Len(pattern) |-> work_period(i)],
                                 [i \in 1..Len(pattern) |-> rest_period]))

StrengthRep(difficulty) == IF difficulty = "Hard" THEN FInt(1) ELSE FHalves(1)
StrengthRest(difficulty) == FInt(1)
StrengthResistance(difficulty) ==
    CASE difficulty = "Easy" -> 6 [] difficulty = "Medium" -> 7 [] OTHER -> 8

\* Line 193: num_sets.
StrengthNumSetsRoundedUp(m_time, difficulty) ==
    FFloorDiv(m_time, FAdd(StrengthRep(difficulty), StrengthRest(difficulty))) + 1

StrengthNumSets(m_time, difficulty) ==
    FFloorDiv(m_time, FAdd(StrengthRep(difficulty), StrengthRest(difficulty)))

generate_strength_workout(m_time, difficulty) ==
    LET power_spm       == 20
        bound           == difficulty \in DIFFICULTIES
        high_resistance == StrengthResistance(difficulty)
        rep_duration    == StrengthRep(difficulty)
        rest_duration   == StrengthRest(difficulty)
        pull(i) == Set("Power Pull", i, "", FMul(rep_duration, FInt(60)),
                       power_spm, high_resistance)
        recovery(i) == Set("Active Recovery", i, "", FMul(rest_duration, FInt(60)),
                           18, 5)
        Sets(num_sets) == Returned(Interleave([i \in 1..num_sets |-> pull(i)],
                                              [i \in 1..num_sets |-> recovery(i)]))
    IN  IF ~bound THEN Raised("UnboundLocalError")
        ELSE Sets(StrengthNumSets(m_time, difficulty))

\* workouts_available of generate_surprise_workout
workouts_available == {"endurance", "interval", "strength"}

\* Line 221: generator(segment_time, difficulty) for a choice of workouts_available
CallGenerator(generator, m_time, difficulty, impl) ==
    CASE generator = "endurance" -> generate_endurance_workout(m_time, difficulty)
      [] generator = "interval"  -> generate_interval_workout(m_time, difficulty, impl)
      [] OTHER                   -> generate_strength_workout(m_time, difficulty)

Rename(sets, i) == [k \in 1..Len(sets) |-> [sets[k] EXCEPT !.seg = i]]

\* ------------------------------------------------------------------------
\* generate_rowing_workout as a state machine
\* ------------------------------------------------------------------------
VARIABLES
    workout_type,        \* argument
    difficulty,          \* argument
    total_time_minutes,  \* argument
    sum_impl,            \* the interpreter's float summation
    pc,                  \* "validate", "dispatch", "surprise", "assemble", "done"
    warmup_time,
    cooldown_time,
    main_time,
    num_segments,        \* generate_surprise_workout: random.randint(3, 6)
    i,                   \* generate_surprise_workout: loop index
    main_sets,           \* the main builder's list (Surprise: the list so far)
    last_call,           \* the latest builder invocation and what it returned
    outcome,             \* "none", "returned", or the error raised
    plan                 \* the returned list

vars == <<workout_type, difficulty, total_time_minutes, sum_impl, pc, warmup_time,
          cooldown_time, main_time, num_segments, i, main_sets, last_call,
          outcome, plan>>

args == <<workout_type, difficulty, total_time_minutes, sum_impl>>

NoCall == [generator |-> "none", m_time |-> FZero, err |-> "none", sets |-> <<>>]

Call(generator, m_time, res) ==
    [generator |-> generator, m_time |-> m_time, err |-> res.err, sets |-> res.sets]

Init ==
    /\ workout_type \in WORKOUT_TYPES \cup OtherWorkoutTypes
    /\ difficulty \in DIFFICULTIES \cup OtherDifficulties
    /\ total_time_minutes \in Totals
    /\ sum_impl \in SumImpls
    /\ pc = "validate"
    /\ warmup_time = FZero
    /\ cooldown_time = FZero
    /\ main_time = FZero
    /\ num_segments = 0
    /\ i = 0
    /\ main_sets = <<>>
    /\ last_call = NoCall
    /\ outcome = "none"
    /\ plan = <<>>

\* Line 239: the 15 minute floor.
TooShortOffByOne(total) == total < 14

TooShort(total) == total < 15

Raise(err) ==
    /\ outcome' = err
    /\ pc' = "done"

\* Lines 239-248: the duration check and the time allocation.
Validate ==
    /\ pc = "validate"
    /\ IF TooShort(total_time_minutes)
       THEN /\ Raise("InvalidDuration")
            /\ UNCHANGED <<warmup_time, cooldown_time, main_time>>
       ELSE LET Allocate(m) ==
                    IF FLess(m, FZero)
                    THEN /\ main_time' = FDivInt(FInt(total_time_minutes), 2)
                         /\ warmup_time' = FDivInt(FInt(total_time_minutes), 4)
                         /\ cooldown_time' = FDivInt(FInt(total_time_minutes), 4)
                    ELSE /\ main_time' = m
                         /\ warmup_time' = FInt(5)
                         /\ cooldown_time' = FInt(5)
            IN  /\ Allocate(FSub(FSub(FInt(total_time_minutes), FInt(5)), FInt(5)))
                /\ pc' = "dispatch"
                /\ UNCHANGED outcome
    /\ UNCHANGED <<args, num_segments, i, main_sets, last_call, plan>>

\* One case of the match that calls a deterministic builder.
Dispatch(type, generator, res) ==
    /\ pc = "dispatch"
    /\ workout_type = type
    /\ last_call' = Call(generator, main_time, res)
    /\ IF res.err # "none"
       THEN /\ Raise(res.err)
            /\ UNCHANGED main_sets
       ELSE /\ main_sets' = res.sets
            /\ pc' = "assemble"
            /\ UNCHANGED outcome
    /\ UNCHANGED <<args, warmup_time, cooldown_time, main_time, num_segments, i, plan>>

DispatchCardio ==
    Dispatch("Cardio", "endurance", generate_endurance_workout(main_time, difficulty))
DispatchInterval ==
    Dispatch("Interval", "interval",
             generate_interval_workout(main_time, difficulty, sum_impl))
DispatchRatePyramid ==
    Dispatch("Pyramid-SPM", "rate_pyramid",
             generate_rate_pyramid_workout(main_time, difficulty))
DispatchTimePyramid ==
    Dispatch("Pyramid-Time", "time_pyramid",
             generate_time_pyramid_workout(main_time, difficulty))
DispatchStrength ==
    Dispatch("Strength", "strength", generate_strength_workout(main_time, difficulty))

\* case 'Surprise': generate_surprise_workout up to its loop.
SurpriseStart ==
    /\ pc = "dispatch"
    /\ workout_type = "Surprise"
    /\ \E n \in 3..6 : num_segments' = n
    /\ i' = 0
    /\ pc' = "surprise"
    /\ UNCHANGED <<args, warmup_time, cooldown_time, main_time, main_sets, last_call,
                   outcome, plan>>

\* One iteration of the loop of generate_surprise_workout.
SurpriseSegment ==
    /\ pc = "surprise"
    /\ i < num_segments
    /\ \E generator \in workouts_available :
         LET Extend(segment_time, res) ==
                 /\ last_call' = Call(generator, segment_time, res)
                 /\ IF res.err # "none"
                    THEN /\ Raise(res.err)
                         /\ UNCHANGED <<main_sets, i>>
                    ELSE /\ main_sets' = main_sets \o Rename(res.sets, i + 1)
                         /\ i' = i + 1
                         /\ UNCHANGED <<pc, outcome>>
             Segment(segment_time) ==
                 Extend(segment_time,
                        CallGenerator(generator, segment_time, difficulty, sum_impl))
         IN  Segment(FDivInt(main_time, num_segments))
    /\ UNCHANGED <<args, warmup_time, cooldown_time, main_time, num_segments, plan>>

\* generate_surprise_workout returns.
SurpriseReturn ==
    /\ pc = "surprise"
    /\ i = num_segments
    /\ pc' = "assemble"
    /\ UNCHANGED <<args, warmup_time, cooldown_time, main_time, num_segments, i,
                   main_sets, last_call, outcome, plan>>

\* case _ of the match.
DispatchUnknown ==
    /\ pc = "dispatch"
    /\ workout_type \notin WORKOUT_TYPES
    /\ Raise("UnknownWorkoutType")
    /\ UNCHANGED <<args, warmup_time, cooldown_time, main_time, num_segments, i,
                   main_sets, last_call, plan>>

extra_cooldown_time(total, sets, warmup, impl) ==
    FTrunc(FSub(FSub(FInt(total * 60), PySum(Times(sets), impl)),
                FMul(warmup, FInt(60))))

\* Line 275: the returned list.
AssembledNoWarmup(warmup_set, sets, cooldown_set) == sets \o <<cooldown_set>>

Assembled(warmup_set, sets, cooldown_set) == <<warmup_set>> \o sets \o <<cooldown_set>>

\* Lines 267-275: warm-up, backfilled cool-down and the returned list.
Assemble ==
    /\ pc = "assemble"
    /\ LET warmup_set   == Set("Warm-up", 0, "", FMul(warmup_time, FInt(60)), 20, 3)
           cooldown_set == Set("Cool-down", 0, "",
                               FInt(extra_cooldown_time(total_time_minutes, main_sets,
                                                        warmup_time, sum_impl)),
                               18, 2)
       IN  plan' = Assembled(warmup_set, main_sets, cooldown_set)
    /\ outcome' = "returned"
    /\ pc' = "done"
    /\ UNCHANGED <<args, warmup_time, cooldown_time, main_time, num_segments, i,
                   main_sets, last_call>>

Next ==
    \/ Validate
    \/ DispatchCardio
    \/ DispatchInterval
    \/ DispatchRatePyramid
    \/ DispatchTimePyramid
    \/ DispatchStrength
    \/ SurpriseStart
    \/ SurpriseSegment
    \/ SurpriseReturn
    \/ DispatchUnknown
    \/ Assemble

Spec == Init /\ [][Next]_vars

\* ------------------------------------------------------------------------
\* Properties
\* ------------------------------------------------------------------------
\* The exact (unrounded) sum of xs[lo..hi].
RECURSIVE ExactSum(_, _, _)
ExactSum(xs, lo, hi) ==
    IF lo > hi THEN FZero
    ELSE IF lo = hi THEN xs[lo]
    ELSE LET mid == (lo + hi) \div 2
         IN  FAddExact(ExactSum(xs, lo, mid), ExactSum(xs, mid + 1, hi))

TotalTime(sets) == ExactSum(Times(sets), 1, Len(sets))

\* The exact product x * k for a natural k.
FTimes(x, k) == FMake(x.neg, BNMulSmall(x.mag, k))

IsLabel(set, name) == set.seg = 0 /\ set.name = name /\ set.num = 0 /\ set.section = ""

ValidArgs ==
    /\ workout_type \in WORKOUT_TYPES
    /\ difficulty \in DIFFICULTIES
    /\ total_time_minutes >= 15

MainOf(p) == SubSeq(p, 2, Len(p) - 1)

\* C1: for valid arguments the durations of the segments of the returned
\* plan sum to exactly total_time_minutes * 60 seconds.
C1_TotalDurationExact ==
    (ValidArgs /\ outcome = "returned")
        => TotalTime(plan) = FInt(total_time_minutes * 60)

\* C2: every returned plan has at least 2 segments, starts with the
\* "Warm-up" segment, ends with the "Cool-down" segment, and no segment in
\* between carries either label.
C2_WarmupFirstCooldownLast ==
    outcome = "returned" =>
        /\ Len(plan) >= 2
        /\ IsLabel(plan[1], "Warm-up")
        /\ IsLabel(plan[Len(plan)], "Cool-down")
        /\ \A k \in 2..(Len(plan) - 1) :
               ~IsLabel(plan[k], "Warm-up") /\ ~IsLabel(plan[k], "Cool-down")

\* C2 witness: a plan was returned although the main builder produced an
\* empty list.
C2_Witness ==
    /\ outcome = "returned"
    /\ main_sets = <<>>
    /\ Len(plan) = 2

\* C3: every segment of every returned plan has a duration >= 0.
C3_DurationsNonNegative ==
    outcome = "returned" => \A k \in 1..Len(plan) : ~plan[k].time.neg

\* C4: a total below 15 minutes fails with InvalidDuration, whatever the
\* workout type and difficulty, before any time is allocated, any builder is
\* invoked or any segment is produced.
C4_InvalidDuration ==
    total_time_minutes < 15 =>
        /\ pc \in {"validate", "done"}
        /\ pc = "done" => outcome = "InvalidDuration"
        /\ last_call = NoCall
        /\ main_time = FZero /\ warmup_time = FZero /\ cooldown_time = FZero
        /\ main_sets = <<>>
        /\ plan = <<>>

\* C4 witness: the call has failed for a short total with an unrecognized
\* workout type.
C4_Witness ==
    /\ total_time_minutes < 15
    /\ workout_type \notin WORKOUT_TYPES
    /\ pc = "done"
    /\ outcome = "InvalidDuration"

\* C5: with a total >= 15 and an enumerated difficulty the call fails if and
\* only if the workout type is not enumerated, and then with
\* UnknownWorkoutType before any builder is invoked.
C5_OnlyUnknownTypeFails ==
    (pc = "done" /\ total_time_minutes >= 15 /\ difficulty \in DIFFICULTIES) =>
        /\ (outcome # "returned") <=> (workout_type \notin WORKOUT_TYPES)
        /\ outcome # "returned" =>
               /\ outcome = "UnknownWorkoutType"
               /\ last_call = NoCall
               /\ main_sets = <<>>

\* C6: with an enumerated workout type and a total >= 15, a difficulty
\* outside the enumerated labels is not an error: a plan is returned.
C6_UnknownDifficultyReturnsPlan ==
    (pc = "done" /\ total_time_minutes >= 15 /\ workout_type \in WORKOUT_TYPES
        /\ difficulty \notin DIFFICULTIES)
        => outcome = "returned"

\* The length of a work/rest cycle of the interval builder in half minutes.
IntervalCycleHalves == IF difficulty = "Easy" THEN 5 ELSE 3

\* C7: the interval builder emits floor(allotted / (work + rest)) pairs
\* ("Work Interval i", "Rest Interval i"), and a trailing "Final Easy Row"
\* carries exactly the time the full cycles leave of the allotted time.
C7_IntervalLeftover ==
    (last_call.generator = "interval" /\ last_call.err = "none") =>
        LET sets == last_call.sets
            n    == Len(sets) \div 2
            left == FAddExact(FTimes(last_call.m_time, 60),
                              FNeg(FInt(n * IntervalCycleHalves * 30)))
        IN  /\ FLeq(FHalves(n * IntervalCycleHalves), last_call.m_time)
            /\ FLess(last_call.m_time, FHalves((n + 1) * IntervalCycleHalves))
            /\ \A k \in 1..n :
                   /\ sets[2 * k - 1].name = "Work Interval" /\ sets[2 * k - 1].num = k
                   /\ sets[2 * k].name = "Rest Interval" /\ sets[2 * k].num = k
            /\ Len(sets) = 2 * n + 1 =>
                   /\ sets[Len(sets)].name = "Final Easy Row"
                   /\ sets[Len(sets)].time = left
                   /\ TotalTime(sets) = FTimes(last_call.m_time, 60)

\* The length of a burst/recovery cycle of the strength builder in half
\* minutes, and the length of a burst in seconds.
StrengthCycleHalves == IF difficulty = "Hard" THEN 4 ELSE 3
StrengthBurstSeconds == IF difficulty = "Hard" THEN 60 ELSE 30
StrengthBurstResistance ==
    CASE difficulty = "Easy" -> 6 [] difficulty = "Medium" -> 7 [] difficulty = "Hard" -> 8

StrengthPair(k, seconds, res) ==
    << Set("Power Pull", k, "", FInt(seconds), 20, res),
       Set("Active Recovery", k, "", FInt(60), 18, 5) >>

\* C8: for an enumerated difficulty the strength builder emits exactly
\* floor(allotted / (burst + recovery)) pairs ("Power Pull i" at 20 and the
\* difficulty's resistance, "Active Recovery i" at 18/5) and nothing else;
\* the leftover goes to the cool-down; generate(Strength, Hard, 20) is the
\* warm-up (300 s, 20, 3), 5 pairs of 60 s / 60 s and a cool-down of 300 s.
C8_StrengthPairs ==
    /\ (last_call.generator = "strength" /\ difficulty \in DIFFICULTIES) =>
           LET sets == last_call.sets
               n    == Len(sets) \div 2
           IN  /\ last_call.err = "none"
               /\ Len(sets) = 2 * n
               /\ FLeq(FHalves(n * StrengthCycleHalves), last_call.m_time)
               /\ FLess(last_call.m_time, FHalves((n + 1) * StrengthCycleHalves))
               /\ \A k \in 1..n :
                      <<sets[2 * k - 1], sets[2 * k]>>
                          = StrengthPair(k, StrengthBurstSeconds, StrengthBurstResistance)
    /\ (workout_type = "Strength" /\ difficulty \in DIFFICULTIES /\ outcome = "returned") =>
           LET n == (Len(plan) - 2) \div 2
           IN  plan[Len(plan)].time
                   = FInt(total_time_minutes * 60 - 300 - n * StrengthCycleHalves * 30)
    /\ (workout_type = "Strength" /\ difficulty = "Hard" /\ total_time_minutes = 20
            /\ outcome = "returned") =>
           plan = <<Set("Warm-up", 0, "", FInt(300), 20, 3)>>
                  \o StrengthPair(1, 60, 8) \o StrengthPair(2, 60, 8)
                  \o StrengthPair(3, 60, 8) \o StrengthPair(4, 60, 8)
                  \o StrengthPair(5, 60, 8)
                  \o <<Set("Cool-down", 0, "", FInt(300), 18, 2)>>

\* C8 witness: generate(Strength, Hard, 20) has returned its plan.
C8_Witness ==
    /\ workout_type = "Strength" /\ difficulty = "Hard" /\ total_time_minutes = 20
    /\ outcome = "returned"
    /\ last_call.generator = "strength"
    /\ Len(last_call.sets) = 10

\* The time pyramid of the latest call: its digits, the rest in seconds and
\* the seconds left for the work steps.  The builder is only called with the
\* whole number of minutes main_time.
PyramidDigits(sets) ==
    IF Len(sets) = 10 THEN <<1, 2, 3, 2, 1>> ELSE <<1, 2, 3, 4, 3, 2, 1>>
PyramidRestSeconds == IF difficulty = "Easy" THEN 45 ELSE 30
PyramidAllottedSeconds == FTrunc(last_call.m_time) * 60
PyramidWorkSeconds(sets) ==
    PyramidAllottedSeconds - PyramidRestSeconds * Len(PyramidDigits(sets))

TimePyramidCall ==
    /\ last_call.generator = "time_pyramid"
    /\ difficulty \in DIFFICULTIES

\* C9 as stated: each work step i of the time pyramid lasts exactly
\* digit_i / sum(digits) of the allotted time less the rests, each is followed
\* by a rest of the difficulty's duration, and work plus rest sum to the
\* allotted time.
C9_WorkStepsProportional ==
    TimePyramidCall =>
        LET sets   == last_call.sets
            digits == PyramidDigits(sets)
        IN  /\ last_call.err = "none"
            /\ Len(sets) \in {10, 14}
            /\ \A k \in 1..Len(digits) :
                   /\ sets[2 * k].name = "Rest"
                   /\ sets[2 * k].time = FInt(PyramidRestSeconds)
                   /\ FIsInt(sets[2 * k - 1].time)
                   /\ FTrunc(sets[2 * k - 1].time) * SeqSum(digits)
                          = digits[k] * PyramidWorkSeconds(sets)
            /\ TotalTime(sets) = FInt(PyramidAllottedSeconds)

\* C9 amended: each work step lasts a whole number of seconds, at most its
\* proportional share and at least the share less one second; each is
\* followed by a rest of the difficulty's duration; work plus rest sum to at
\* most the allotted time and fall short of it by at most one second per
\* work step.
C9_WorkStepsTruncated ==
    TimePyramidCall =>
        LET sets   == last_call.sets
            digits == PyramidDigits(sets)
        IN  /\ last_call.err = "none"
            /\ Len(sets) \in {10, 14}
            /\ \A k \in 1..Len(digits) :
                   /\ sets[2 * k].name = "Rest"
                   /\ sets[2 * k].time = FInt(PyramidRestSeconds)
                   /\ FIsInt(sets[2 * k - 1].time)
                   /\ FTrunc(sets[2 * k - 1].time) * SeqSum(digits)
                          <= digits[k] * PyramidWorkSeconds(sets)
                   /\ digits[k] * PyramidWorkSeconds(sets)
                          <= (FTrunc(sets[2 * k - 1].time) + 1) * SeqSum(digits)
            /\ FLeq(TotalTime(sets), FInt(PyramidAllottedSeconds))
            /\ FLeq(FInt(PyramidAllottedSeconds - Len(digits)), TotalTime(sets))

\* C9 witness: a time pyramid was built whose first work step is shorter than
\* its proportional share.
C9_Witness ==
    /\ TimePyramidCall
    /\ last_call.err = "none"
    /\ FTrunc(last_call.sets[1].time) * SeqSum(PyramidDigits(last_call.sets))
           < PyramidWorkSeconds(last_call.sets)

\* C10: in every plan returned for a total >= 15 the main segments sum to at
\* most (total_time_minutes - 10) * 60 seconds and the cool-down lasts at
\* least 300 seconds.
C10_MainWithinAllotment ==
    (outcome = "returned" /\ total_time_minutes >= 15) =>
        /\ FLeq(TotalTime(MainOf(plan)), FInt((total_time_minutes - 10) * 60))
        /\ FLeq(FInt(300), plan[Len(plan)].time)

====
